---- MODULE Spec2Model ----
(***************************************************************************)
(* Model of the NoteColors trainer (src/main.py): the NoteColorsApp        *)
(* session state (note pool, active notes, per-note statistics, pending    *)
(* challenge), the colour patches shown on screen, and the handlers that   *)
(* change them.                                                            *)
(*                                                                         *)
(* A note id is a Python string such as 't3'; it is modelled as the        *)
(* sequence of its characters, <<"t", "3">>, so that slicing, int() and    *)
(* the f-string formatting of the code are computed, not assumed.          *)
(* Python's None is modelled as the empty sequence.                        *)
(***************************************************************************)
EXTENDS Integers, Sequences, FiniteSets, TLC

\* ------------------------------------------------------------------ bounds
\* Cap on times_identified_correctly_sound (unbounded in the code).
MaxCorrect == 5

\* get_note_color is exercised with octaves from MIN_OCTAVE - OctaveMargin to
\* MAX_OCTAVE + OctaveMargin.
OctaveMargin == 2

\* Longest active_notes list the display rebuild is exercised with.
MaxDisplayed == 3

\* Longest pool, other than the literal of the code, the session is run with.
MaxPoolLen == 2

\* --------------------------------------------------------------- constants
CORRECT_IDS_FOR_PROGRESSION == 3

MIN_OCTAVE == 0

MAX_OCTAVE == 8

MIDDLE_OCTAVE == 4

None == <<>>

\* The keys of NOTES.
NOTES == {"o", "p", "q", "r", "s", "t", "i", "j", "k", "l", "m", "n"}

\* The keys of NOTES whose 'frequency' is not None.
NOTES_with_frequency == {"r", "s", "t", "i", "j", "k"}

\* The pool literal assigned in __init__.
NotePoolLiteral == << <<"t", "3">>, <<"i", "4">>, <<"j", "4">>, <<"k", "4">>, <<"s", "3">> >>

\* Pools the constructor is exercised with: the literal of the code, and the
\* empty list that its guard rejects.
ConstructionPools == {<<>>, NotePoolLiteral}

\* ------------------------------------------------------------ pure helpers
Range(s) == {s[i] : i \in DOMAIN s}

DigitChars == <<"0", "1", "2", "3", "4", "5", "6", "7", "8", "9">>

DigitValue(c) == (CHOOSE i \in 1..10 : DigitChars[i] = c) - 1

\* str.isdigit(): non-empty and made of digits only.
isdigit(s) == Len(s) > 0 /\ \A i \in DOMAIN s : s[i] \in Range(DigitChars)

\* int(s) for a string of decimal digits.
RECURSIVE py_int(_)
py_int(s) ==
  IF Len(s) = 0 THEN 0
  ELSE py_int(SubSeq(s, 1, Len(s) - 1)) * 10 + DigitValue(s[Len(s)])

\* str(n) / f"{n}" for a natural number: decimal digits, no leading zero.
RECURSIVE py_str(_)
py_str(n) ==
  IF n < 10 THEN <<DigitChars[n + 1]>>
  ELSE py_str(n \div 10) \o <<DigitChars[(n % 10) + 1]>>

\* [x for x in s if x not in excluded]
RECURSIVE filter_not_in(_, _)
filter_not_in(s, excluded) ==
  IF Len(s) = 0 THEN <<>>
  ELSE IF Head(s) \in Range(excluded) THEN filter_not_in(Tail(s), excluded)
       ELSE <<Head(s)>> \o filter_not_in(Tail(s), excluded)

\* random.choice(seq): any element of a non-empty sequence.
random_choice(s) == Range(s)

\* d[k] = v on a dict.
dict_set(d, k, v) == [x \in (DOMAIN d) \cup {k} |-> IF x = k THEN v ELSE d[x]]

\* Variant: no entry is created.
ensure_stats_skipped(stats, id) == stats

\* {'times_identified_correctly_sound': 0} stored under id when id is not a key.
ensure_stats(stats, id) == IF id \in DOMAIN stats THEN stats ELSE dict_set(stats, id, 0)

\* Variant: the counter is bumped twice for one correct answer.
increment_correct_twice(stats, id) == dict_set(stats, id, stats[id] + 2)

\* stats[id]['times_identified_correctly_sound'] += 1
increment_correct(stats, id) == dict_set(stats, id, stats[id] + 1)

\* Variant: "at least" the threshold instead of equality.
progression_reached_at_least(count) == count >= CORRECT_IDS_FOR_PROGRESSION

\* target_stats['times_identified_correctly_sound'] == CORRECT_IDS_FOR_PROGRESSION
progression_reached(count) == count = CORRECT_IDS_FOR_PROGRESSION

EmptyDict == [x \in {} |-> 0]

\* ------------------------------------------------------------------- state
VARIABLES
  pc,                      \* "start", "failed", "constructed", "running"
  initial_note_pool,
  active_notes,
  note_stats,              \* note id -> times_identified_correctly_sound
  current_target_note_id,
  color_patches_layout,    \* the patches on screen, each with its note_id
  effects,                 \* what the last call printed or played
  color_query,             \* the arguments of a get_note_color call, or None
  color_answer             \* what that call returned or raised, or None

vars == <<pc, initial_note_pool, active_notes, note_stats,
          current_target_note_id, color_patches_layout, effects,
          color_query, color_answer>>

\* ------------------------------------------------------------------ colour
\* Python floats are modelled as exact rationals <<numerator, denominator>>
\* in lowest terms with a positive denominator; rounding is not modelled.
\* The arithmetic is written as functions, whose arguments are values; a value
\* the code keeps in a local variable is the parameter of a local operator.
Rational == Int \X Int

GCD[a \in Nat, b \in Nat] == IF b = 0 THEN a ELSE GCD[b, a % b]

Abs[n \in Int] == IF n < 0 THEN -n ELSE n

Q[n \in Int, d \in Int] ==
  LET reduced(g, sgn) == <<(sgn * n) \div g, (sgn * d) \div g>>
  IN reduced(GCD[Abs[n], Abs[d]], IF d < 0 THEN -1 ELSE 1)

QInt[n \in Int] == <<n, 1>>

QAdd[x \in Rational, y \in Rational] == Q[x[1] * y[2] + y[1] * x[2], x[2] * y[2]]

QSub[x \in Rational, y \in Rational] == Q[x[1] * y[2] - y[1] * x[2], x[2] * y[2]]

QMul[x \in Rational, y \in Rational] == Q[x[1] * y[1], x[2] * y[2]]

QDiv[x \in Rational, y \in Rational] == Q[x[1] * y[2], x[2] * y[1]]

QLt[x \in Rational, y \in Rational] == x[1] * y[2] < y[1] * x[2]

QLe[x \in Rational, y \in Rational] == x[1] * y[2] <= y[1] * x[2]

QMax[x \in Rational, y \in Rational] == IF QLt[x, y] THEN y ELSE x

QMin[x \in Rational, y \in Rational] == IF QLt[y, x] THEN y ELSE x

\* x % 1.0
QMod1[x \in Rational] == Q[x[1] - (x[1] \div x[2]) * x[2], x[2]]

\* max(0.0, min(1.0, x))
clamp01[x \in Rational] == QMax[QInt[0], QMin[QInt[1], x]]

\* NOTES[letter]['base_rgb']
NOTES_base_rgb(letter) ==
  CASE letter = "o" -> <<Q[1, 1], Q[4, 10], Q[7, 10]>>
    [] letter = "p" -> <<Q[1, 1], Q[0, 1], Q[0, 1]>>
    [] letter = "q" -> <<Q[9, 10], Q[25, 100], Q[21, 100]>>
    [] letter = "r" -> <<Q[1, 1], Q[65, 100], Q[0, 1]>>
    [] letter = "s" -> <<Q[855, 1000], Q[647, 1000], Q[125, 1000]>>
    [] letter = "t" -> <<Q[1, 1], Q[1, 1], Q[0, 1]>>
    [] letter = "i" -> <<Q[5, 10], Q[1, 1], Q[0, 1]>>
    [] letter = "j" -> <<Q[0, 1], Q[5, 10], Q[0, 1]>>
    [] letter = "k" -> <<Q[0, 1], Q[1, 1], Q[1, 1]>>
    [] letter = "l" -> <<Q[0, 1], Q[0, 1], Q[1, 1]>>
    [] letter = "m" -> <<Q[29, 100], Q[0, 1], Q[51, 100]>>
    [] letter = "n" -> <<Q[5, 10], Q[0, 1], Q[1, 1]>>

\* colorsys.rgb_to_hls(r, g, b), as <<h, l, s>>.
rgb_to_hls[r \in Rational, g \in Rational, b \in Rational] ==
  LET with_extremes(maxc, minc) ==
        LET sumc == QAdd[maxc, minc]
            rangec == QSub[maxc, minc]
            l == QDiv[sumc, QInt[2]]
        IN IF minc = maxc THEN <<QInt[0], l, QInt[0]>>
           ELSE LET s == IF QLe[l, Q[1, 2]] THEN QDiv[rangec, sumc]
                         ELSE QDiv[rangec, QSub[QSub[QInt[2], maxc], minc]]
                    rc == QDiv[QSub[maxc, r], rangec]
                    gc == QDiv[QSub[maxc, g], rangec]
                    bc == QDiv[QSub[maxc, b], rangec]
                    h == IF r = maxc THEN QSub[bc, gc]
                         ELSE IF g = maxc THEN QSub[QAdd[QInt[2], rc], bc]
                         ELSE QSub[QAdd[QInt[4], gc], rc]
                IN <<QMod1[QDiv[h, QInt[6]]], l, s>>
  IN with_extremes(QMax[QMax[r, g], b], QMin[QMin[r, g], b])

\* colorsys._v(m1, m2, hue)
hls_v[m1 \in Rational, m2 \in Rational, hue0 \in Rational] ==
  LET with_hue(hue) ==
        IF QLt[hue, Q[1, 6]] THEN QAdd[m1, QMul[QMul[QSub[m2, m1], hue], QInt[6]]]
        ELSE IF QLt[hue, Q[1, 2]] THEN m2
        ELSE IF QLt[hue, Q[2, 3]]
          THEN QAdd[m1, QMul[QMul[QSub[m2, m1], QSub[Q[2, 3], hue]], QInt[6]]]
        ELSE m1
  IN with_hue(QMod1[hue0])

\* colorsys.hls_to_rgb(h, l, s), as <<r, g, b>>.
hls_to_rgb[h \in Rational, l \in Rational, s \in Rational] ==
  IF s = QInt[0] THEN <<l, l, l>>
  ELSE LET with_m1(m1, m2) ==
             <<hls_v[m1, m2, QAdd[h, Q[1, 3]]], hls_v[m1, m2, h], hls_v[m1, m2, QSub[h, Q[1, 3]]]>>
           with_m2(m2) == with_m1(QSub[QMul[QInt[2], l], m2], m2)
       IN with_m2(IF QLe[l, Q[1, 2]] THEN QMul[l, QAdd[QInt[1], s]]
                  ELSE QSub[QAdd[l, s], QMul[l, s]])

BLACK == <<QInt[0], QInt[0], QInt[0]>>

WHITE == <<QInt[1], QInt[1], QInt[1]>>

\* A call that returned rgb / a call that raised ValueError.
Returned(rgb) == [raised |-> "", rgb |-> rgb]

Raised(exception) == [raised |-> exception, rgb |-> <<>>]

\* lightness_step_per_octave = 0.1
lightness_step_per_octave == Q[1, 10]

\* Variant: twice the step per octave.
target_lightness_double_step(l_base, octave) ==
  clamp01[QAdd[l_base, QMul[QInt[octave - MIDDLE_OCTAVE], Q[2, 10]]]]

\* Variant: the step is applied with the wrong sign.
target_lightness_reversed(l_base, octave) ==
  clamp01[QSub[l_base, QMul[QInt[octave - MIDDLE_OCTAVE], lightness_step_per_octave]]]

\* target_l = l_base + (octave - MIDDLE_OCTAVE) * lightness_step_per_octave, clamped
target_lightness(l_base, octave) ==
  clamp01[QAdd[l_base, QMul[QInt[octave - MIDDLE_OCTAVE], lightness_step_per_octave]]]

\* (r_norm, g_norm, b_norm): the base colour's hue at lightness 0.5, saturation 1.0.
normalized_rgb(note_letter) ==
  LET normalized_l == Q[1, 2]
      normalized_s == QInt[1]
      with_hls_orig(hls_orig) == hls_to_rgb[hls_orig[1], normalized_l, normalized_s]
      with_base_rgb(original_base_rgb) ==
        with_hls_orig(rgb_to_hls[original_base_rgb[1], original_base_rgb[2],
                                 original_base_rgb[3]])
  IN with_base_rgb(NOTES_base_rgb(note_letter))

\* The else branch: the normalized colour with its lightness moved by the octave.
adjusted_rgb(norm, octave) ==
  LET with_calc(calc) == <<clamp01[calc[1]], clamp01[calc[2]], clamp01[calc[3]]>>
      with_base(h_base, l_base, s_base) ==
        with_calc(hls_to_rgb[h_base, target_lightness(l_base, octave), s_base])
      with_hls(base) == with_base(base[1], base[2], base[3])
  IN with_hls(rgb_to_hls[norm[1], norm[2], norm[3]])

\* Variant: octaves MIN_OCTAVE and MAX_OCTAVE are not handled apart.
in_range_color_without_ends(note_letter, octave) ==
  LET with_norm(norm) ==
        IF octave = MIDDLE_OCTAVE
        THEN <<clamp01[norm[1]], clamp01[norm[2]], clamp01[norm[3]]>>
        ELSE adjusted_rgb(norm, octave)
  IN with_norm(normalized_rgb(note_letter))

\* The part of get_note_color after the letter check and the out-of-range returns.
in_range_color(note_letter, octave) ==
  LET with_norm(norm) ==
        IF octave = MIDDLE_OCTAVE
        THEN <<clamp01[norm[1]], clamp01[norm[2]], clamp01[norm[3]]>>
        ELSE IF octave = MIN_OCTAVE THEN BLACK
        ELSE IF octave = MAX_OCTAVE THEN WHITE
        ELSE adjusted_rgb(norm, octave)
  IN with_norm(normalized_rgb(note_letter))

\* Variant: the out-of-range returns come before the letter check.
get_note_color_range_first(note_letter, octave) ==
  IF octave < MIN_OCTAVE THEN Returned(BLACK)
  ELSE IF octave > MAX_OCTAVE THEN Returned(WHITE)
  ELSE IF note_letter \notin NOTES THEN Raised("ValueError")
  ELSE Returned(in_range_color(note_letter, octave))

\* in_range_color tabulated over the letters of NOTES and the octaves
\* MIN_OCTAVE..MAX_OCTAVE, so that each colour is computed once.
in_range_color_table ==
  [note_letter \in NOTES |->
     [octave \in MIN_OCTAVE..MAX_OCTAVE |-> in_range_color(note_letter, octave)]]

\* get_note_color(note_letter, octave)
get_note_color(note_letter, octave) ==
  IF note_letter \notin NOTES THEN Raised("ValueError")
  ELSE IF octave < MIN_OCTAVE THEN Returned(BLACK)
  ELSE IF octave > MAX_OCTAVE THEN Returned(WHITE)
  ELSE Returned(in_range_color_table[note_letter][octave])

\* ----------------------------------------------------------------- display
\* The error colour (0.1, 0.1, 0.1).
ERROR_COLOR == <<Q[1, 10], Q[1, 10], Q[1, 10]>>

\* A ColorDisplayWidget after set_color(rgb) and note_id = id.
Patch(rgb, id) == [display_color_rgb |-> rgb, note_id |-> id]

\* ColorDisplayWidget.set_color_by_note: the widget's colour and note_id.
set_color_by_note(note_letter, octave) ==
  LET with_color(c) ==
        IF c.raised = "" THEN Patch(c.rgb, <<note_letter>> \o py_str(octave))
        ELSE Patch(ERROR_COLOR, None)
  IN with_color(get_note_color(note_letter, octave))

\* The patch built for one entry of active_notes.
patch_for(note_id_str) ==
  IF Len(note_id_str) < 2 THEN Patch(ERROR_COLOR, note_id_str)
  ELSE IF ~isdigit(Tail(note_id_str)) THEN Patch(ERROR_COLOR, note_id_str)
  ELSE IF Head(note_id_str) \notin NOTES THEN Patch(ERROR_COLOR, note_id_str)
  ELSE set_color_by_note(Head(note_id_str), py_int(Tail(note_id_str)))

\* The tests of update_color_patches_display that lead to the error colour.
displayable(note_id_str) ==
  /\ Len(note_id_str) >= 2
  /\ isdigit(Tail(note_id_str))
  /\ Head(note_id_str) \in NOTES

\* Variant: an entry that cannot be displayed is skipped, no patch is added for it.
update_color_patches_display_skipping(active) ==
  LET shown == SelectSeq(active, displayable)
  IN [i \in 1..Len(shown) |-> patch_for(shown[i])]

\* update_color_patches_display: one patch per active note, in order
\* (for note_id_str in self.active_notes, the list being evaluated once).
update_color_patches_display(active) ==
  LET layout[notes \in {active}] == [i \in 1..Len(notes) |-> patch_for(notes[i])]
  IN layout[active]

\* ------------------------------------------------------------- progression
\* Variant: the filter on active_notes is missing.
available_notes_unfiltered(pool, active) == pool

\* Variant: the filter is inverted, the notes already active are offered.
available_notes_inverted(pool, active) == SelectSeq(pool, LAMBDA n : n \in Range(active))

\* [note for note in self.initial_note_pool if note not in self.active_notes]
available_notes(pool, active) == filter_not_in(pool, active)

\* Variant: the last available note is taken instead of the first.
pick_last_note(available_new_notes) == available_new_notes[Len(available_new_notes)]

\* available_new_notes[0]
pick_new_note(available_new_notes) == available_new_notes[1]

\* Variant: the new note is inserted in front.
prepend_note(active, new_note_to_add) == <<new_note_to_add>> \o active

\* self.active_notes.append(new_note_to_add)
append_note(active, new_note_to_add) == Append(active, new_note_to_add)

\* Variant: with no locked note left, the first pool note is added again.
attempt_to_add_new_note_again(pool, active, stats, patches) ==
  LET available_new_notes == available_notes(pool, active)
      candidates == IF Len(available_new_notes) > 0 THEN available_new_notes ELSE pool
      new_note_to_add == pick_new_note(candidates)
      new_active == append_note(active, new_note_to_add)
  IN [active_notes |-> new_active,
      note_stats |-> ensure_stats(stats, new_note_to_add),
      color_patches_layout |-> update_color_patches_display(new_active),
      effects |-> << <<"Progress! Added new note", new_note_to_add>> >>]

\* attempt_to_add_new_note on (pool, active, stats, patches).
attempt_to_add_new_note(pool, active, stats, patches) ==
  LET available_new_notes == available_notes(pool, active) IN
  IF Len(available_new_notes) > 0
  THEN LET new_note_to_add == pick_new_note(available_new_notes)
           new_active == append_note(active, new_note_to_add)
       IN [active_notes |-> new_active,
           note_stats |-> ensure_stats(stats, new_note_to_add),
           color_patches_layout |-> update_color_patches_display(new_active),
           effects |-> << <<"Progress! Added new note", new_note_to_add>> >>]
  ELSE [active_notes |-> active,
        note_stats |-> stats,
        color_patches_layout |-> patches,
        effects |-> << <<"All initial notes have been added!">> >>]

\* ------------------------------------------------------------- constructor
Init ==
  /\ pc = "start"
  /\ initial_note_pool \in ConstructionPools
  /\ active_notes = <<>>
  /\ note_stats = EmptyDict
  /\ current_target_note_id = None
  /\ color_patches_layout = <<>>
  /\ effects = <<>>
  /\ color_query = None
  /\ color_answer = None

\* Variant: the initial note is left pending as a challenge.
init_state_pending(initial_active_note_id) ==
  [active_notes |-> <<initial_active_note_id>>,
   note_stats |-> dict_set(EmptyDict, initial_active_note_id, 0),
   current_target_note_id |-> initial_active_note_id]

\* What __init__ leaves in the object for a chosen initial note.
init_state(initial_active_note_id) ==
  [active_notes |-> <<initial_active_note_id>>,
   note_stats |-> dict_set(EmptyDict, initial_active_note_id, 0),
   current_target_note_id |-> None]

\* NoteColorsApp.__init__
NoteColorsApp_init ==
  /\ pc = "start"
  /\ IF Len(initial_note_pool) = 0
     THEN /\ pc' = "failed"
          /\ effects' = << <<"ValueError", "initial_note_pool cannot be empty.">> >>
          /\ UNCHANGED <<active_notes, note_stats, current_target_note_id>>
     ELSE \E initial_active_note_id \in random_choice(initial_note_pool) :
            LET s == init_state(initial_active_note_id) IN
            /\ pc' = "constructed"
            /\ active_notes' = s.active_notes
            /\ note_stats' = s.note_stats
            /\ current_target_note_id' = s.current_target_note_id
            /\ effects' = << <<"Initial active note", s.active_notes[1]>> >>
  /\ UNCHANGED <<initial_note_pool, color_patches_layout, color_query, color_answer>>

\* NoteColorsApp.build: binds the handlers and fills the patches.
build ==
  /\ pc = "constructed"
  /\ pc' = "running"
  /\ color_patches_layout' = update_color_patches_display(active_notes)
  /\ effects' = <<>>
  /\ UNCHANGED <<initial_note_pool, active_notes, note_stats, current_target_note_id,
                 color_query, color_answer>>

\* ---------------------------------------------------------------- handlers
\* _play_note_sound: the tone started, or the error printed.
play_note_sound(note_letter, octave) ==
  IF note_letter \notin NOTES \/ note_letter \notin NOTES_with_frequency
  THEN << <<"Error: Frequency not defined for note letter", note_letter>> >>
  ELSE << <<"tone", note_letter, octave>> >>

\* Variant: the challenge is drawn from the whole pool.
challenge_candidates_from_pool(pool, active) == random_choice(pool)

\* The notes play_challenge_note_action may pick.
challenge_candidates(pool, active) == random_choice(active)

\* The body of play_challenge_note_action once the target is picked.
challenge_outcome(target, stats) ==
  IF Len(target) >= 1 /\ isdigit(Tail(target))
  THEN [current_target_note_id |-> target,
        note_stats |-> ensure_stats(stats, target),
        effects |-> play_note_sound(Head(target), py_int(Tail(target)))
                      \o << <<"Playing challenge note", target>> >>]
  ELSE [current_target_note_id |-> None,
        note_stats |-> stats,
        effects |-> << <<"Error parsing current_target_note_id", target>> >>]

\* NoteColorsApp.play_challenge_note_action
play_challenge_note_action ==
  /\ pc = "running"
  /\ IF Len(active_notes) = 0
     THEN /\ effects' = << <<"No active notes available to play as a challenge.">> >>
          /\ UNCHANGED <<note_stats, current_target_note_id>>
     ELSE \E target \in challenge_candidates(initial_note_pool, active_notes) :
            \E r \in {challenge_outcome(target, note_stats)} :
            /\ current_target_note_id' = r.current_target_note_id
            /\ note_stats' = r.note_stats
            /\ effects' = r.effects
  /\ UNCHANGED <<pc, initial_note_pool, active_notes, color_patches_layout,
                 color_query, color_answer>>

\* Variant: the early return is missing, the click falls through to the comparison.
click_without_target_fallthrough(clicked, target, pool, active, stats, patches) ==
  [current_target_note_id |-> target,
   active_notes |-> active,
   note_stats |-> stats,
   color_patches_layout |-> patches,
   effects |-> << <<"Incorrect", clicked, target>> >>]

\* handle_color_patch_click when current_target_note_id is None.
click_without_target(clicked, target, pool, active, stats, patches) ==
  [current_target_note_id |-> target,
   active_notes |-> active,
   note_stats |-> stats,
   color_patches_layout |-> patches,
   effects |-> << <<"Play a note first">> >>]

\* handle_color_patch_click when the clicked patch is the target.
click_correct(clicked, target, pool, active, stats, patches) ==
  LET stats1 == increment_correct(ensure_stats(stats, target), target)
      identified_note == target
      head == << <<"Correct!", clicked>>, <<"Stats", identified_note, stats1[identified_note]>> >>
  IN IF progression_reached(stats1[identified_note])
     THEN LET after_attempt(a) ==
                [current_target_note_id |-> None,
                 active_notes |-> a.active_notes,
                 note_stats |-> a.note_stats,
                 color_patches_layout |-> a.color_patches_layout,
                 effects |-> head \o << <<"Attempting progression", identified_note>> >>
                               \o a.effects]
          IN after_attempt(attempt_to_add_new_note(pool, active, stats1, patches))
     ELSE [current_target_note_id |-> None,
           active_notes |-> active,
           note_stats |-> stats1,
           color_patches_layout |-> patches,
           effects |-> head]

\* Variant: a wrong click also resets the challenge.
click_incorrect_resets(clicked, target, pool, active, stats, patches) ==
  [current_target_note_id |-> None,
   active_notes |-> active,
   note_stats |-> stats,
   color_patches_layout |-> patches,
   effects |-> << <<"Incorrect", clicked, target>> >>]

\* handle_color_patch_click when the clicked patch is not the target.
click_incorrect(clicked, target, pool, active, stats, patches) ==
  [current_target_note_id |-> target,
   active_notes |-> active,
   note_stats |-> stats,
   color_patches_layout |-> patches,
   effects |-> << <<"Incorrect", clicked, target>> >>]

\* The result of handle_color_patch_click for a clicked note id.
click_outcome(clicked, target, pool, active, stats, patches) ==
  IF target = None THEN click_without_target(clicked, target, pool, active, stats, patches)
  ELSE IF clicked = target THEN click_correct(clicked, target, pool, active, stats, patches)
  ELSE click_incorrect(clicked, target, pool, active, stats, patches)

\* handle_color_patch_click(clicked_widget_instance) for the w-th patch on screen.
patch_click(w) ==
  LET clicked_note_id == color_patches_layout[w].note_id
  IN /\ (current_target_note_id # None /\ clicked_note_id = current_target_note_id
           /\ current_target_note_id \in DOMAIN note_stats)
         => note_stats[current_target_note_id] < MaxCorrect
     /\ \E r \in {click_outcome(clicked_note_id, current_target_note_id, initial_note_pool,
                                active_notes, note_stats, color_patches_layout)} :
          /\ current_target_note_id' = r.current_target_note_id
          /\ active_notes' = r.active_notes
          /\ note_stats' = r.note_stats
          /\ color_patches_layout' = r.color_patches_layout
          /\ effects' = r.effects
     /\ UNCHANGED <<pc, initial_note_pool, color_query, color_answer>>

\* NoteColorsApp.handle_color_patch_click, for a touch on one of the patches.
handle_color_patch_click ==
  /\ pc = "running"
  /\ \E w \in DOMAIN color_patches_layout : patch_click(w)

Next ==
  \/ NoteColorsApp_init
  \/ build
  \/ play_challenge_note_action
  \/ handle_color_patch_click

Spec == Init /\ [][Next]_vars

\* ------------------------------------------------------ the session, fair
\* Note n has not reached the progression threshold yet.
BelowThreshold(n) ==
  n \in DOMAIN note_stats /\ note_stats[n] < CORRECT_IDS_FOR_PROGRESSION

\* play_challenge_note_action picks a note that is below the threshold.
IssueBelowThreshold ==
  /\ play_challenge_note_action
  /\ BelowThreshold(current_target_note_id')

\* handle_color_patch_click on the patch of the pending target, which is
\* below the threshold.
AnswerBelowThreshold ==
  /\ pc = "running"
  /\ current_target_note_id # None
  /\ BelowThreshold(current_target_note_id)
  /\ \E w \in DOMAIN color_patches_layout :
       color_patches_layout[w].note_id = current_target_note_id /\ patch_click(w)

\* The application is constructed and built; notes below the threshold keep
\* being posed, and when such a note is pending again and again it is
\* answered correctly again and again. Both follow from "every active note
\* is posed infinitely often and every pending challenge is eventually
\* answered correctly".
LiveSpec ==
  /\ Spec
  /\ WF_vars(NoteColorsApp_init)
  /\ WF_vars(build)
  /\ WF_vars(IssueBelowThreshold)
  /\ SF_vars(AnswerBelowThreshold)

\* ------------------------------------------------- get_note_color on its own
\* Letters get_note_color is called with: the keys of NOTES and two others.
ColorLetters == NOTES \cup {"h", "x"}

ColorOctaves == (MIN_OCTAVE - OctaveMargin)..(MAX_OCTAVE + OctaveMargin)

InitColor ==
  /\ pc = "get_note_color"
  /\ initial_note_pool = <<>>
  /\ active_notes = <<>>
  /\ note_stats = EmptyDict
  /\ current_target_note_id = None
  /\ color_patches_layout = <<>>
  /\ effects = <<>>
  /\ color_query \in ColorLetters \X ColorOctaves
  /\ color_answer = None

\* One call get_note_color(note_letter, octave).
get_note_color_call ==
  /\ pc = "get_note_color"
  /\ color_answer = None
  /\ color_answer' = get_note_color(color_query[1], color_query[2])
  /\ pc' = "returned"
  /\ UNCHANGED <<initial_note_pool, active_notes, note_stats, current_target_note_id,
                 color_patches_layout, effects, color_query>>

NextColor == get_note_color_call

SpecColor == InitColor /\ [][NextColor]_vars

\* ------------------------------------------------------------ observations
\* The last call printed (or played) something tagged tag.
Printed(tag) == \E i \in DOMAIN effects : effects[i][1] = tag

TypeOK ==
  /\ pc \in {"start", "failed", "constructed", "running", "get_note_color", "returned"}
  /\ initial_note_pool \in ConstructionPools
  /\ \A n \in DOMAIN note_stats : note_stats[n] \in 0..MaxCorrect


\* attempt_to_add_new_note ran during the last call (it prints one of these).
AttemptUnlockInvoked ==
  Printed("Progress! Added new note") \/ Printed("All initial notes have been added!")

\* The w-th patch carries the pending target.
ClicksTarget(w) ==
  /\ current_target_note_id # None
  /\ color_patches_layout[w].note_id = current_target_note_id

\* The w-th patch carries another note than the pending target.
ClicksOther(w) ==
  /\ current_target_note_id # None
  /\ color_patches_layout[w].note_id # current_target_note_id

\* ------------------------------------------------------------------ claims

\* C1: a click on the patch of the pending target raises that note's count
\* by exactly 1, resets the target to None, runs attempt_to_add_new_note if
\* and only if the new count is exactly 3, and changes no other note's count.
C1_CorrectGuess ==
  [][\A w \in DOMAIN color_patches_layout :
       (pc = "running" /\ ClicksTarget(w) /\ patch_click(w)) =>
         LET t == current_target_note_id IN
         /\ t \in DOMAIN note_stats /\ t \in DOMAIN note_stats'
         /\ note_stats'[t] = note_stats[t] + 1
         /\ current_target_note_id' = None
         /\ AttemptUnlockInvoked' <=> (note_stats'[t] = 3)
         /\ \A n \in DOMAIN note_stats :
              n # t => (n \in DOMAIN note_stats' /\ note_stats'[n] = note_stats[n])]_vars

\* C1 witness: a correct answer brought a note to 3 and the unlock ran.
C1_Witness ==
  /\ Printed("Correct!")
  /\ AttemptUnlockInvoked
  /\ current_target_note_id = None
  /\ \E n \in DOMAIN note_stats : note_stats[n] = 3 /\ effects[1] = <<"Correct!", n>>

\* C2: counts never decrease; attempt_to_add_new_note runs only in the
\* correct answer that takes a note from 2 to 3 and in every such answer, so
\* at most once per note; a correct answer on a note already at 3 or more
\* leaves active_notes as it is.
C2_OneUnlockAttemptPerNote ==
  [][/\ \A n \in DOMAIN note_stats :
          n \in DOMAIN note_stats' /\ note_stats'[n] >= note_stats[n]
     /\ AttemptUnlockInvoked' =>
          /\ pc = "running"
          /\ current_target_note_id \in DOMAIN note_stats
          /\ note_stats[current_target_note_id] = 2
          /\ note_stats'[current_target_note_id] = 3
     /\ \A w \in DOMAIN color_patches_layout :
          (pc = "running" /\ ClicksTarget(w) /\ patch_click(w)
             /\ current_target_note_id \in DOMAIN note_stats) =>
            /\ note_stats[current_target_note_id] = 2 => AttemptUnlockInvoked'
            /\ note_stats[current_target_note_id] >= 3 => active_notes' = active_notes]_vars

\* C2 witness: a 5th correct answer on a note while pool notes are still locked.
C2_Witness ==
  /\ Printed("Correct!")
  /\ ~AttemptUnlockInvoked
  /\ Len(active_notes) < Len(initial_note_pool)
  /\ \E n \in DOMAIN note_stats : note_stats[n] = 5 /\ effects[1] = <<"Correct!", n>>

\* C3: a click on a patch other than the pending target leaves the target,
\* every count, active_notes and the pool unchanged and the target's patch
\* on screen; the next click on the target's patch then counts exactly 1.
C3_IncorrectGuess ==
  [][/\ \A w \in DOMAIN color_patches_layout :
          (pc = "running" /\ ClicksOther(w) /\ patch_click(w)) =>
            /\ Printed("Incorrect")'
            /\ UNCHANGED <<current_target_note_id, note_stats, active_notes, initial_note_pool>>
            /\ \E v \in DOMAIN color_patches_layout' : ClicksTarget(v)'
     /\ \A w \in DOMAIN color_patches_layout :
          (Printed("Incorrect") /\ ClicksTarget(w) /\ patch_click(w)) =>
            /\ Printed("Correct!")'
            /\ current_target_note_id \in DOMAIN note_stats
            /\ note_stats'[current_target_note_id] = note_stats[current_target_note_id] + 1
            /\ current_target_note_id' = None]_vars

\* C3 witness: a wrong click was rejected and the challenge is still pending.
C3_Witness ==
  /\ Printed("Incorrect")
  /\ current_target_note_id # None
  /\ effects[1][2] # current_target_note_id
  /\ effects[1][3] = current_target_note_id
  /\ note_stats[current_target_note_id] >= 1

\* C4: a click while no challenge is pending is rejected with the "play a
\* note first" message and changes nothing, whichever patch is clicked.
C4_NoActiveChallenge ==
  [][\A w \in DOMAIN color_patches_layout :
       (pc = "running" /\ current_target_note_id = None /\ patch_click(w)) =>
         /\ effects' = << <<"Play a note first">> >>
         /\ UNCHANGED <<current_target_note_id, note_stats, active_notes,
                        initial_note_pool, color_patches_layout>>]_vars

\* C4 witness: a click rejected after an earlier correct answer.
C4_Witness ==
  /\ Printed("Play a note first")
  /\ current_target_note_id = None
  /\ Len(active_notes) >= 2
  /\ \E n \in DOMAIN note_stats : note_stats[n] >= 1

\* The session object exists.
Constructed == pc \in {"constructed", "running"}

\* s is a prefix of t.
IsPrefix(s, t) == Len(s) <= Len(t) /\ \A i \in DOMAIN s : t[i] = s[i]

\* The first note of the pool, in pool order, that is not active.
FirstLocked ==
  LET locked == {i \in DOMAIN initial_note_pool :
                   \A j \in DOMAIN active_notes : active_notes[j] # initial_note_pool[i]}
  IN initial_note_pool[CHOOSE i \in locked : \A k \in locked : i <= k]

\* Every pool note is active.
FullyUnlocked ==
  /\ Constructed
  /\ \A i \in DOMAIN initial_note_pool :
       \E j \in DOMAIN active_notes : active_notes[j] = initial_note_pool[i]

\* The pool positions of the notes other than the initially chosen one, ascending.
OtherPositions ==
  {i \in DOMAIN initial_note_pool : initial_note_pool[i] # active_notes[1]}

\* C5: an unlock appends the first pool note that is not active and gives it
\* a count of 0; so active_notes is always the initial note followed by the
\* first notes of the pool without that note, in pool order.
C5_UnlockOrder ==
  /\ [](Constructed =>
         \A k \in 2..Len(active_notes) :
           \E i \in OtherPositions :
             /\ active_notes[k] = initial_note_pool[i]
             /\ Cardinality({j \in OtherPositions : j < i}) = k - 2)
  /\ [][(pc = "running" /\ active_notes' # active_notes) =>
          /\ AttemptUnlockInvoked'
          /\ active_notes' = Append(active_notes, FirstLocked)
          /\ FirstLocked \in DOMAIN note_stats'
          /\ note_stats'[FirstLocked] = 0]_vars

\* C5 witness: three notes unlocked after an initial note from the middle of the pool.
C5_Witness ==
  /\ Printed("Progress! Added new note")
  /\ Len(active_notes) = 4
  /\ active_notes[1] = initial_note_pool[3]
  /\ active_notes[4] = initial_note_pool[4]

\* C6: once every pool note is active, attempt_to_add_new_note changes
\* neither active_notes nor note_stats and only reports that all notes have
\* been added; every later state is fully unlocked too.
C6_FullyUnlockedStable ==
  /\ [](FullyUnlocked =>
         LET a == attempt_to_add_new_note(initial_note_pool, active_notes,
                                          note_stats, color_patches_layout)
         IN /\ a.active_notes = active_notes
            /\ a.note_stats = note_stats
            /\ a.effects = << <<"All initial notes have been added!">> >>)
  /\ [][FullyUnlocked =>
          /\ FullyUnlocked'
          /\ active_notes' = active_notes
          /\ DOMAIN note_stats' = DOMAIN note_stats
          /\ AttemptUnlockInvoked' =>
               /\ Printed("All initial notes have been added!")'
               /\ \A n \in DOMAIN note_stats :
                    n # current_target_note_id => note_stats'[n] = note_stats[n]]_vars

\* C6 witness: an unlock attempt made when all pool notes were already active.
C6_Witness ==
  /\ FullyUnlocked
  /\ Printed("All initial notes have been added!")
  /\ Len(active_notes) = Len(initial_note_pool)

\* C7: active_notes has no duplicate, holds pool notes only, and every
\* active note has a note_stats entry with a natural-number count.
C7_ActiveNotesInvariant ==
  Constructed =>
    /\ \A i, j \in DOMAIN active_notes : active_notes[i] = active_notes[j] => i = j
    /\ \A i \in DOMAIN active_notes :
         /\ \E k \in DOMAIN initial_note_pool : initial_note_pool[k] = active_notes[i]
         /\ active_notes[i] \in DOMAIN note_stats
         /\ note_stats[active_notes[i]] \in Nat

\* C7 witness: all five notes active, some with counts, some without.
C7_Witness ==
  /\ pc = "running"
  /\ Len(active_notes) = 5
  /\ \E i, j \in DOMAIN active_notes :
       note_stats[active_notes[i]] = 0 /\ note_stats[active_notes[j]] > 3

\* C8: in every step the old active_notes is a prefix of the new one, which
\* is at most one element longer, and the pool stays what it was.
C8_ActiveNotesGrowOnly ==
  [][/\ IsPrefix(active_notes, active_notes')
     /\ Len(active_notes') <= Len(active_notes) + 1
     /\ initial_note_pool' = initial_note_pool]_vars

\* C8 witness: a click has just appended a third note.
C8_Witness ==
  /\ pc = "running"
  /\ Printed("Progress! Added new note")
  /\ Len(active_notes) = 3
  /\ initial_note_pool = NotePoolLiteral

\* C9: with an empty pool the constructor raises ValueError and no session
\* exists; with a non-empty pool the constructed session has exactly one
\* active note, taken from the pool, with count 0, and no pending target.
C9_Construction ==
  /\ (initial_note_pool = <<>>) => pc \in {"start", "failed"}
  /\ pc = "failed" =>
       /\ initial_note_pool = <<>>
       /\ Printed("ValueError")
       /\ active_notes = <<>>
       /\ DOMAIN note_stats = {}
  /\ pc = "constructed" =>
       /\ Len(active_notes) = 1
       /\ \E k \in DOMAIN initial_note_pool : initial_note_pool[k] = active_notes[1]
       /\ DOMAIN note_stats = {active_notes[1]}
       /\ note_stats[active_notes[1]] = 0
       /\ current_target_note_id = None

\* C9 witness: a session just constructed on the last note of the pool.
C9_Witness ==
  /\ pc = "constructed"
  /\ active_notes = <<initial_note_pool[Len(initial_note_pool)]>>

\* C10: play_challenge_note_action sets the target to an active note (the
\* only one when one is active), adds a zero count for it only when it has
\* none, and changes neither active_notes nor any existing count.
C10_IssueChallenge ==
  [][play_challenge_note_action =>
       /\ \E i \in DOMAIN active_notes : current_target_note_id' = active_notes[i]
       /\ Len(active_notes) = 1 => current_target_note_id' = active_notes[1]
       /\ active_notes' = active_notes
       /\ \A n \in DOMAIN note_stats :
            n \in DOMAIN note_stats' /\ note_stats'[n] = note_stats[n]
       /\ DOMAIN note_stats' = DOMAIN note_stats \cup {current_target_note_id'}
       /\ current_target_note_id' \notin DOMAIN note_stats =>
            note_stats'[current_target_note_id'] = 0]_vars

\* C10 witness: a challenge posed among several active notes on a note
\* that already has correct answers.
C10_Witness ==
  /\ Printed("Playing challenge note")
  /\ Len(active_notes) >= 2
  /\ current_target_note_id # None
  /\ current_target_note_id \in DOMAIN note_stats
  /\ note_stats[current_target_note_id] >= 1

\* ------------------------------------------- the display rebuild on its own
\* Note ids the rebuild is exercised with: well-formed ones (one with a
\* leading zero, one above MAX_OCTAVE), a one-character id, an id whose octave
\* is not a number, and an id whose letter is not a key of NOTES.
DisplayIds ==
  { <<"t", "3">>, <<"m", "9">>, <<"k", "0", "4">>, <<"t">>, <<"t", "z">>, <<"x", "4">> }

NoDuplicates(q) == \A i, j \in DOMAIN q : q[i] = q[j] => i = j

\* The lists of distinct ids of length 0..n.
RECURSIVE DistinctSeqs(_, _)
DistinctSeqs(ids, n) ==
  IF n = 0 THEN {<<>>}
  ELSE LET shorter == DistinctSeqs(ids, n - 1)
           longer == {Append(q, x) : q \in shorter, x \in ids}
       IN shorter \cup {q \in longer : NoDuplicates(q)}

\* A constructed application object whose active_notes is one of these lists.
InitDisplay ==
  /\ pc = "constructed"
  /\ active_notes \in DistinctSeqs(DisplayIds, MaxDisplayed) \ {<<>>}
  /\ initial_note_pool = active_notes
  /\ note_stats = [n \in Range(active_notes) |-> 0]
  /\ current_target_note_id = None
  /\ color_patches_layout = <<>>
  /\ effects = <<>>
  /\ color_query = None
  /\ color_answer = None

NextDisplay == build

SpecDisplay == InitDisplay /\ [][NextDisplay]_vars

\* ------------------------------------------- the session with other pools
\* Notes for pools with pitch classes that have no frequency ('o', 'l') next
\* to one that has ('r').
PoolNotes == { <<"o", "4">>, <<"r", "4">>, <<"l", "3">> }

\* The pool literal of the code and the short pools over PoolNotes.
OtherPools == {NotePoolLiteral} \cup (DistinctSeqs(PoolNotes, MaxPoolLen) \ {<<>>})

\* The application started with one of these pools in place of the literal.
InitPools ==
  /\ pc = "start"
  /\ initial_note_pool \in OtherPools
  /\ active_notes = <<>>
  /\ note_stats = EmptyDict
  /\ current_target_note_id = None
  /\ color_patches_layout = <<>>
  /\ effects = <<>>
  /\ color_query = None
  /\ color_answer = None

SpecPools == InitPools /\ [][Next]_vars

\* ------------------------------------------------- claims on get_note_color
\* The twelve pitch-class letters.
RegisteredLetters == {"i", "j", "k", "l", "m", "n", "o", "p", "q", "r", "s", "t"}

\* get_note_color(color_query) has returned a colour for a registered letter.
Answered ==
  /\ pc = "returned"
  /\ color_query[1] \in RegisteredLetters
  /\ color_answer.raised = ""

QueryOctave == color_query[2]

\* Hue, lightness and saturation of the returned colour.
AnswerHLS == rgb_to_hls[color_answer.rgb[1], color_answer.rgb[2], color_answer.rgb[3]]

\* Hue of the letter's authored base colour.
BaseHue(letter) ==
  rgb_to_hls[NOTES_base_rgb(letter)[1], NOTES_base_rgb(letter)[2], NOTES_base_rgb(letter)[3]][1]

\* 0.5 + 0.1 * (octave - 4) as a fraction in lowest terms: (octave + 1) / 10.
SpecLightness(octave) == Q[octave + 1, 10]

\* C13: for a registered letter, octave 0 and every octave below give
\* (0,0,0), octave 8 and every octave above give (1,1,1).
C13_BlackAndWhiteEnds ==
  (pc = "returned" /\ color_query[1] \in RegisteredLetters) =>
    /\ color_answer.raised = ""
    /\ QueryOctave <= 0 => color_answer.rgb = << <<0, 1>>, <<0, 1>>, <<0, 1>> >>
    /\ QueryOctave >= 8 => color_answer.rgb = << <<1, 1>>, <<1, 1>>, <<1, 1>> >>

\* C13 witness: octave 8 of a registered letter came out white.
C13_Witness ==
  /\ Answered
  /\ QueryOctave = 8
  /\ color_answer.rgb = << <<1, 1>>, <<1, 1>>, <<1, 1>> >>

\* C14: for a registered letter and 0 < octave < 8 the returned colour has
\* the hue of the base colour, saturation 1 and lightness
\* 0.5 + 0.1 * (octave - 4), which lies in [0.2, 0.8] and is larger than the
\* lightness returned for the octave below.
C14_HueAndLightness ==
  (Answered /\ QueryOctave > 0 /\ QueryOctave < 8) =>
    /\ AnswerHLS[1] = BaseHue(color_query[1])
    /\ AnswerHLS[3] = <<1, 1>>
    /\ AnswerHLS[2] = SpecLightness(QueryOctave)
    /\ QueryOctave = 4 => AnswerHLS[2] = <<1, 2>>
    /\ QLe[<<1, 5>>, AnswerHLS[2]] /\ QLe[AnswerHLS[2], <<4, 5>>]
    /\ QueryOctave > 1 =>
         LET below == get_note_color(color_query[1], QueryOctave - 1).rgb
         IN QLt[rgb_to_hls[below[1], below[2], below[3]][2], AnswerHLS[2]]

\* C14 witness: octave 7 of the goldenrod letter, lightness 0.8.
C14_Witness ==
  /\ Answered
  /\ color_query = <<"s", 7>>
  /\ AnswerHLS[2] = <<4, 5>>

\* C15 as stated: black only below octave 0, white only above octave 8, and
\* every in-range octave other than 4, 0 and 8 included, gives lightness
\* 0.5 + (octave - 4) * 0.1.
C15_Original ==
  Answered =>
    /\ color_answer.rgb = << <<0, 1>>, <<0, 1>>, <<0, 1>> >> => QueryOctave < 0
    /\ color_answer.rgb = << <<1, 1>>, <<1, 1>>, <<1, 1>> >> => QueryOctave > 8
    /\ (QueryOctave >= 0 /\ QueryOctave <= 8 /\ QueryOctave # 4) =>
         AnswerHLS[2] = SpecLightness(QueryOctave)

\* C15 amended: black exactly for octaves up to 0, white exactly for octaves
\* from 8 on, and every octave from 1 to 7 other than 4 gives lightness
\* 0.5 + (octave - 4) * 0.1.
C15_Amended ==
  Answered =>
    /\ color_answer.rgb = << <<0, 1>>, <<0, 1>>, <<0, 1>> >> <=> QueryOctave <= 0
    /\ color_answer.rgb = << <<1, 1>>, <<1, 1>>, <<1, 1>> >> <=> QueryOctave >= 8
    /\ (QueryOctave >= 1 /\ QueryOctave <= 7 /\ QueryOctave # 4) =>
         AnswerHLS[2] = SpecLightness(QueryOctave)

\* C15 witness: octave 0 of a registered letter came out black.
C15_Witness ==
  /\ Answered
  /\ QueryOctave = 0
  /\ color_answer.rgb = << <<0, 1>>, <<0, 1>>, <<0, 1>> >>

\* C16: for a letter outside the twelve registered ones the call raises
\* ValueError and returns no colour, whatever the octave.
C16_UnknownLetter ==
  (pc = "returned" /\ color_query[1] \notin RegisteredLetters) =>
    /\ color_answer.raised = "ValueError"
    /\ color_answer.rgb = <<>>

\* C16 witness: an unknown letter with an octave above MAX_OCTAVE was rejected.
C16_Witness ==
  /\ pc = "returned"
  /\ color_query = <<"x", 9>>
  /\ color_answer.raised = "ValueError"

\* ------------------------------------------------------ claim on the display
\* The three ways an id is malformed or unrecognized.
Malformed(id) ==
  \/ Len(id) < 2
  \/ \E i \in 2..Len(id) : id[i] \notin {"0", "1", "2", "3", "4", "5", "6", "7", "8", "9"}
  \/ id[1] \notin RegisteredLetters

\* C17: after a rebuild there is exactly one patch per active note, in the
\* order of active_notes; the patch of a malformed or unrecognized id has the
\* colour (0.1, 0.1, 0.1), the patch of any other id has the colour
\* get_note_color gives for its letter and octave.
C17_DisplayRebuild ==
  pc = "running" =>
    /\ Len(color_patches_layout) = Len(active_notes)
    /\ \A i \in DOMAIN active_notes :
         LET id == active_notes[i] IN
         /\ i \in DOMAIN color_patches_layout
         /\ Malformed(id) =>
              color_patches_layout[i].display_color_rgb = << <<1, 10>>, <<1, 10>>, <<1, 10>> >>
         /\ ~Malformed(id) =>
              /\ get_note_color(id[1], py_int(Tail(id))).raised = ""
              /\ color_patches_layout[i].display_color_rgb
                   = get_note_color(id[1], py_int(Tail(id))).rgb

\* C17 witness: a malformed id displayed between two well-formed ones.
C17_Witness ==
  /\ pc = "running"
  /\ active_notes = << <<"t", "3">>, <<"t", "z">>, <<"k", "0", "4">> >>
  /\ color_patches_layout[2].display_color_rgb = ERROR_COLOR
  /\ color_patches_layout[3].display_color_rgb # ERROR_COLOR

\* ------------------------------------------- claims on challenges and growth
\* The note picked by the last play_challenge_note_action has no frequency.
UnplayablePicked == Printed("Error: Frequency not defined for note letter")

C12_ClearedOnlyByCorrectAnswer ==
  [][(current_target_note_id # None /\ current_target_note_id' = None) =>
       /\ pc = "running"
       /\ Printed("Correct!")'
       /\ \E w \in DOMAIN color_patches_layout : ClicksTarget(w) /\ patch_click(w)]_vars

\* C12 witness: a challenge on a note without frequency was posed over a
\* pending one and a challenge is still pending.
C12_Witness ==
  /\ UnplayablePicked
  /\ current_target_note_id # None
  /\ Len(active_notes) >= 2
  /\ \E n \in DOMAIN note_stats : note_stats[n] >= 3

\* The notes that have reached the progression threshold.
Mastered == {n \in DOMAIN note_stats : note_stats[n] >= 3}

Min2(a, b) == IF a < b THEN a ELSE b

\* C18: the number of active notes is min(|pool|, 1 + number of notes with
\* a count of at least 3), and a step in which a note reaches 3 while a pool
\* note is still locked adds exactly one active note.
C18_ActiveCount ==
  /\ [](Constructed =>
         Len(active_notes) = Min2(Len(initial_note_pool), 1 + Cardinality(Mastered)))
  /\ [][(pc = "running" /\ Cardinality(Mastered') > Cardinality(Mastered)) =>
          /\ Cardinality(Mastered') = Cardinality(Mastered) + 1
          /\ Len(active_notes) < Len(initial_note_pool) =>
               Len(active_notes') = Len(active_notes) + 1
          /\ Len(active_notes) >= Len(initial_note_pool) =>
               active_notes' = active_notes]_vars

\* C18 witness: three notes at the threshold or beyond and four active notes.
C18_Witness ==
  /\ pc = "running"
  /\ Cardinality(Mastered) = 3
  /\ Len(active_notes) = 4
  /\ Printed("Progress! Added new note")

\* C19: the target is None or an active note that has a note_stats entry
\* and whose patch is on screen.
C19_TargetIsActive ==
  current_target_note_id # None =>
    /\ \E i \in DOMAIN active_notes : active_notes[i] = current_target_note_id
    /\ current_target_note_id \in DOMAIN note_stats
    /\ \E w \in DOMAIN color_patches_layout :
         color_patches_layout[w].note_id = current_target_note_id

\* C19 witness: the last unlocked of three notes is the pending target.
C19_Witness ==
  /\ pc = "running"
  /\ Len(active_notes) = 3
  /\ current_target_note_id = active_notes[3]

\* A correct answer to a note whose count already reached the threshold
\* leaves active_notes as it was.
PastThresholdAnswer ==
  \A w \in DOMAIN color_patches_layout :
    (/\ pc = "running"
     /\ ClicksTarget(w)
     /\ current_target_note_id \in DOMAIN note_stats
     /\ note_stats[current_target_note_id] >= CORRECT_IDS_FOR_PROGRESSION
     /\ patch_click(w))
    => /\ active_notes' = active_notes
       /\ ~AttemptUnlockInvoked'

====
